---- MODULE Spec2Model ----
(***************************************************************************)
(* A model of package tgz (src/tgz.go): Bytes and Tar build a gzip-ed tar  *)
(* stream over an io.MultiWriter of the caller's sinks, Untar unpacks such *)
(* a stream below a destination directory.                                 *)
(*                                                                         *)
(* Strings (paths, entry names) are sequences of one-character strings, so *)
(* that strings.Replace, strings.TrimPrefix, filepath.Base and             *)
(* filepath.Join are computed character by character.  The alphabet of     *)
(* the model has no "." so filepath.Clean only has separators to clean.    *)
(*                                                                         *)
(* The tar stream is a sequence of tokens (one per Write the tar writer    *)
(* makes on the gzip writer: header block, entry content, padding, the     *)
(* two-block trailer); the gzip stream is a sequence of chunks (one per    *)
(* Write the gzip writer makes on the MultiWriter: the 10-byte header,     *)
(* deflate output, the 8-byte trailer).  Every sink records the chunks it  *)
(* accepted.                                                               *)
(***************************************************************************)
EXTENDS Integers, Sequences, FiniteSets, TLC

\* ------------------------------------------------------------------ bounds
MaxLen == 2        \* longest file / buffer content, in bytes
NSinks == 2        \* number of writers handed to Bytes / Tar
MaxFailAt == 3     \* a failing sink fails on its 1st .. MaxFailAt-th Write

\* ------------------------------------------------------- program constants
DefaultMode == 420         \* 0644
BlockSize == 512           \* archive/tar block size

Byte == {1, 2}

RECURSIVE SeqsUpTo(_)
SeqsUpTo(n) ==
  IF n = 0 THEN {<<>>}
  ELSE LET S == SeqsUpTo(n - 1)
       IN  S \cup {Append(s, x) : s \in {t \in S : Len(t) = n - 1}, x \in Byte}

Contents == SeqsUpTo(MaxLen)

\* ------------------------------------------------------------- strings
Sep == "/"

HasPrefix(s, p) ==
  /\ Len(p) <= Len(s)
  /\ SubSeq(s, 1, Len(p)) = p

HasSuffix(s, p) ==
  /\ Len(p) <= Len(s)
  /\ SubSeq(s, Len(s) - Len(p) + 1, Len(s)) = p

\* strings.TrimPrefix(s, p)
TrimPrefix(s, p) ==
  IF HasPrefix(s, p) THEN SubSeq(s, Len(p) + 1, Len(s)) ELSE s

\* strings.Replace(s, old, "", -1): every non-overlapping occurrence of old,
\* scanning from the left, is removed (an empty old matches between
\* characters and removes nothing).
RECURSIVE ReplaceAllEmpty(_, _)
ReplaceAllEmpty(s, old) ==
  IF old = <<>> \/ Len(s) < Len(old) THEN s
  ELSE IF HasPrefix(s, old)
       THEN ReplaceAllEmpty(SubSeq(s, Len(old) + 1, Len(s)), old)
       ELSE <<Head(s)>> \o ReplaceAllEmpty(Tail(s), old)

\* filepath.Clean for paths without "." and ".." elements: runs of
\* separators collapse to one and a trailing separator is dropped.
RECURSIVE Squeeze(_)
Squeeze(s) ==
  IF Len(s) <= 1 THEN s
  ELSE IF s[1] = Sep /\ s[2] = Sep THEN Squeeze(Tail(s))
       ELSE <<Head(s)>> \o Squeeze(Tail(s))

Clean(s) ==
  LET q == Squeeze(s)
  IN  IF Len(q) > 1 /\ q[Len(q)] = Sep THEN SubSeq(q, 1, Len(q) - 1) ELSE q

\* filepath.Join(dir, name): empty elements are ignored, the result is Cleaned
Join(dir, name) ==
  IF name = <<>> THEN Clean(dir) ELSE Clean(dir \o <<Sep>> \o name)

\* index of the last separator of s, 0 when there is none
LastSep(s) ==
  LET I == {i \in 1..Len(s) : s[i] = Sep}
  IN  IF I = {} THEN 0 ELSE CHOOSE i \in I : \A j \in I : j <= i

\* filepath.Base of a cleaned, non-empty path
Base(s) == SubSeq(s, LastSep(s) + 1, Len(s))

\* filepath.Dir of a cleaned path below the destination
Dir(s) == SubSeq(s, 1, LastSep(s) - 1)

\* ------------------------------------------------------------- headers
ZeroTime == "zero"         \* time.Time{}
TypeRegA == "rega"         \* zero value of Header.Typeflag
TypeReg == "reg"
TypeDir == "dir"
TypeSymlink == "symlink"

Hdr(name, size, uname, gname, mode, mt, at, ct, tf) ==
  [Name |-> name, Size |-> size, Uname |-> uname, Gname |-> gname,
   Mode |-> mode, ModTime |-> mt, AccessTime |-> at, ChangeTime |-> ct,
   Typeflag |-> tf]

\* a nil *tar.Header
NilHeader == Hdr(<<>>, 0, "", "", 0, ZeroTime, ZeroTime, ZeroTime, "nil")

\* ------------------------------------------------- tokens and chunks
\* what the tar writer writes on the gzip writer
TokHdr(h) == [t |-> "hdr", h |-> h, b |-> <<>>, n |-> BlockSize]
TokData(b) == [t |-> "data", h |-> NilHeader, b |-> b, n |-> Len(b)]
TokPad(n) == [t |-> "pad", h |-> NilHeader, b |-> <<>>, n |-> n]
TokZero == [t |-> "zero", h |-> NilHeader, b |-> <<>>, n |-> BlockSize]
\* a block that is no header (only in streams not written by this package)
TokBad == [t |-> "bad", h |-> NilHeader, b |-> <<>>, n |-> BlockSize]

RECURSIVE TokBytes(_)
TokBytes(toks) ==
  IF toks = <<>> THEN 0 ELSE Head(toks).n + TokBytes(Tail(toks))

\* what the gzip writer writes on the MultiWriter
ChunkHdr == [c |-> "gzhdr", p |-> <<>>, n |-> 0]
ChunkDeflate(toks) == [c |-> "deflate", p |-> toks, n |-> 0]
ChunkFinal(toks) == [c |-> "final", p |-> toks, n |-> 0]
ChunkTrailer(size) == [c |-> "gztrl", p |-> <<>>, n |-> size]
\* bytes that are no gzip header
ChunkJunk == [c |-> "junk", p |-> <<>>, n |-> 0]

\* ------------------------------------------------------------- sinks
\* A sink accepts every Write whole, except its failOn-th, which fails and
\* stores nothing (failOn = 0: the sink never fails).
NewSink(failOn) == [data |-> <<>>, writes |-> 0, failOn |-> failOn]

SinkFailed(s) == s.failOn > 0 /\ s.writes >= s.failOn

\* faulty variant: a fan-out that offers the chunk to every sink, also after a failure
MwWriteNoStop(sinks, chunk) ==
  [sinks |-> [j \in 1..Len(sinks) |->
                [sinks[j] EXCEPT !.writes = @ + 1,
                                 !.data = IF sinks[j].failOn = sinks[j].writes + 1
                                          THEN @ ELSE Append(@, chunk)]],
   err |-> IF \E j \in 1..Len(sinks) : sinks[j].failOn = sinks[j].writes + 1
           THEN "sink" ELSE "nil"]

RECURSIVE MwWriteFrom(_, _, _)
MwWriteFrom(sinks, chunk, k) ==
  IF k > Len(sinks) THEN [sinks |-> sinks, err |-> "nil"]
  ELSE LET s == sinks[k]
           fails == s.failOn = s.writes + 1
           s1 == [s EXCEPT !.writes = @ + 1,
                           !.data = IF fails THEN @ ELSE Append(@, chunk)]
           sinks1 == [sinks EXCEPT ![k] = s1]
       IN  IF fails THEN [sinks |-> sinks1, err |-> "sink"]
           ELSE MwWriteFrom(sinks1, chunk, k + 1)

\* io.MultiWriter(w...).Write(chunk): the sinks in order, stopping at the
\* first one whose Write fails.
MwWrite(sinks, chunk) == MwWriteFrom(sinks, chunk, 1)

\* ------------------------------------------------------ gzip.Writer
NewGz == [wroteHeader |-> FALSE, pending |-> <<>>, size |-> 0,
          err |-> "nil", closed |-> FALSE]
NewTw == [err |-> "nil", nb |-> 0, pad |-> 0]

NewPipeline(sinks) == [sinks |-> sinks, gz |-> NewGz, tw |-> NewTw]

\* gzip.Writer.Write(toks).  The gzip header goes to the MultiWriter on the
\* first Write; the data goes to the compressor, which keeps it or, when
\* emit holds, writes what it holds to the MultiWriter (the compressor
\* decides by the amount of data; the model leaves it open).  A Write after
\* Close fails in the compressor.
GzWrite(p, toks, emit) ==
  IF p.gz.err # "nil" THEN [p |-> p, err |-> p.gz.err]
  ELSE
    LET r1 == IF p.gz.wroteHeader THEN [sinks |-> p.sinks, err |-> "nil"]
              ELSE MwWrite(p.sinks, ChunkHdr)
    IN  IF r1.err # "nil"
        THEN [p |-> [p EXCEPT !.sinks = r1.sinks, !.gz.wroteHeader = TRUE,
                              !.gz.err = r1.err],
              err |-> r1.err]
        ELSE IF p.gz.closed
        THEN [p |-> [p EXCEPT !.sinks = r1.sinks, !.gz.wroteHeader = TRUE,
                              !.gz.err = "flate"],
              err |-> "flate"]
        ELSE
          LET pend == p.gz.pending \o toks
              out == emit /\ pend # <<>>
              r2 == IF out THEN MwWrite(r1.sinks, ChunkDeflate(pend))
                    ELSE [sinks |-> r1.sinks, err |-> "nil"]
          IN  [p |-> [p EXCEPT !.sinks = r2.sinks,
                               !.gz.wroteHeader = TRUE,
                               !.gz.pending = IF out THEN <<>> ELSE pend,
                               !.gz.size = @ + TokBytes(toks),
                               !.gz.err = r2.err],
               err |-> r2.err]

\* gzip.Writer.Close(): header if not yet written, the compressor's last
\* block, then the 8-byte trailer; the first error stops it.
GzClose(p) ==
  IF p.gz.err # "nil" THEN [p |-> p, err |-> p.gz.err]
  ELSE IF p.gz.closed THEN [p |-> p, err |-> "nil"]
  ELSE
    LET p0 == [p EXCEPT !.gz.closed = TRUE]
        r1 == IF p0.gz.wroteHeader THEN [sinks |-> p0.sinks, err |-> "nil"]
              ELSE MwWrite(p0.sinks, ChunkHdr)
        p1 == [p0 EXCEPT !.sinks = r1.sinks, !.gz.wroteHeader = TRUE,
                         !.gz.err = r1.err]
    IN  IF r1.err # "nil" THEN [p |-> p1, err |-> r1.err]
        ELSE
          LET r2 == MwWrite(p1.sinks, ChunkFinal(p1.gz.pending))
              p2 == [p1 EXCEPT !.sinks = r2.sinks, !.gz.pending = <<>>,
                               !.gz.err = r2.err]
          IN  IF r2.err # "nil" THEN [p |-> p2, err |-> r2.err]
              ELSE
                LET r3 == MwWrite(p2.sinks, ChunkTrailer(p2.gz.size))
                IN  [p |-> [p2 EXCEPT !.sinks = r3.sinks, !.gz.err = r3.err],
                     err |-> r3.err]

\* ------------------------------------------------------- tar.Writer
\* blockPadding(size)
BlockPadding(size) == (BlockSize - (size % BlockSize)) % BlockSize

\* tar.Writer.Flush(): the padding of the entry before, unless it is short
TwFlush(p) ==
  IF p.tw.err # "nil" THEN [p |-> p, err |-> p.tw.err]
  ELSE IF p.tw.nb > 0 THEN [p |-> p, err |-> "missed"]
  ELSE
    LET r == GzWrite(p, IF p.tw.pad > 0 THEN <<TokPad(p.tw.pad)>> ELSE <<>>, FALSE)
    IN  [p |-> [r.p EXCEPT !.tw.err = r.err,
                           !.tw.pad = IF r.err = "nil" THEN 0 ELSE @],
         err |-> r.err]

\* the header as tar.Writer puts it in the stream when no Format is chosen:
\* the legacy TypeRegA becomes TypeReg or TypeDir, access and change time
\* are dropped.
StreamHeader(h) ==
  [h EXCEPT !.Typeflag = IF h.Typeflag = TypeRegA
                         THEN (IF HasSuffix(h.Name, <<Sep>>) THEN TypeDir ELSE TypeReg)
                         ELSE @,
            !.AccessTime = ZeroTime,
            !.ChangeTime = ZeroTime]

\* tar.Writer.WriteHeader(h)
TwWriteHeader(p, h, emit) ==
  LET f == TwFlush(p)
  IN  IF f.err # "nil" THEN f
      ELSE
        LET sh == StreamHeader(h)
            size == IF sh.Typeflag = TypeReg THEN sh.Size ELSE 0
            r == GzWrite(f.p, <<TokHdr(sh)>>, emit)
        IN  [p |-> [r.p EXCEPT !.tw.err = r.err,
                               !.tw.nb = IF r.err = "nil" THEN size ELSE @,
                               !.tw.pad = IF r.err = "nil" THEN BlockPadding(size) ELSE @],
             err |-> r.err]

\* tar.Writer.Write(b): at most the bytes the header announced
TwWrite(p, b, emit) ==
  IF p.tw.err # "nil" THEN [p |-> p, n |-> 0, err |-> p.tw.err]
  ELSE
    LET over == Len(b) > p.tw.nb
        b1 == IF over THEN SubSeq(b, 1, p.tw.nb) ELSE b
        r == IF Len(b1) > 0 THEN GzWrite(p, <<TokData(b1)>>, emit)
             ELSE [p |-> p, err |-> "nil"]
        n == IF r.err = "nil" THEN Len(b1) ELSE 0
    IN  [p |-> [r.p EXCEPT !.tw.nb = @ - n, !.tw.err = r.err],
         n |-> n,
         err |-> IF r.err # "nil" THEN r.err
                 ELSE IF over THEN "toolong" ELSE "nil"]

\* tar.Writer.Close(): Flush, then the two zero blocks; whatever happens the
\* writer is closed afterwards.
TwClose(p, emit) ==
  IF p.tw.err = "closed" THEN [p |-> p, err |-> "nil"]
  ELSE IF p.tw.err # "nil" THEN [p |-> p, err |-> p.tw.err]
  ELSE
    LET f == TwFlush(p)
        r1 == IF f.err = "nil" THEN GzWrite(f.p, <<TokZero>>, FALSE) ELSE f
        r2 == IF r1.err = "nil" THEN GzWrite(r1.p, <<TokZero>>, emit) ELSE r1
    IN  [p |-> [r2.p EXCEPT !.tw.err = "closed"], err |-> r2.err]

\* io.Copy(tw, src): src is read to its end and written with one Write; an
\* empty src means no Write at all.  readable = FALSE is a nil *os.File
\* (os.Open failed and its error was dropped): Read fails with ErrInvalid.
Copy(p, body, readable, emit) ==
  IF ~readable THEN [p |-> p, n |-> 0, err |-> "invalid"]
  ELSE IF body = <<>> THEN [p |-> p, n |-> 0, err |-> "nil"]
  ELSE TwWrite(p, body, emit)

\* ------------------------------------------------ the source file system
\* A node is what Lstat reports for a path, with the file's content.  kind is
\* the type part of the mode ("reg": no type bit set); special says that
\* setuid, setgid or sticky is set; lerr that Lstat fails during the walk;
\* readable that os.Open succeeds.  A symlink node points to a regular file
\* with the node's content.
Node(path, kind, special, data, readable, lerr) ==
  [path |-> path, kind |-> kind, special |-> special, data |-> data,
   readable |-> readable, lerr |-> lerr]

NilInfo == Node(<<>>, "nil", FALSE, <<>>, FALSE, FALSE)

RootPath == <<"d">>
PathA == <<"d", Sep, "a">>
PathS == <<"d", Sep, "s">>
PathSB == <<"d", Sep, "s", Sep, "b">>
PathSD == <<"d", Sep, "s", Sep, "d">>
MissingPath == <<"x">>

RootNode == Node(RootPath, "dir", FALSE, <<>>, TRUE, FALSE)
NodeS == Node(PathS, "dir", FALSE, <<>>, TRUE, FALSE)
NodeSB == Node(PathSB, "reg", FALSE, <<2>>, TRUE, FALSE)
NodeSD == Node(PathSD, "reg", FALSE, <<1>>, TRUE, FALSE)

NodesA ==
  {Node(PathA, "reg", FALSE, c, TRUE, FALSE) : c \in Contents}
    \cup {Node(PathA, "reg", TRUE, <<1>>, TRUE, FALSE),
          Node(PathA, "reg", FALSE, <<1>>, FALSE, FALSE),
          Node(PathA, "pipe", FALSE, <<>>, TRUE, FALSE),
          Node(PathA, "symlink", FALSE, <<1>>, TRUE, FALSE),
          Node(PathA, "reg", FALSE, <<>>, TRUE, TRUE)}

\* the trees, each in the order filepath.Walk visits it (lexical)
Trees ==
  {<<RootNode>> \o a \o s :
     a \in {<<>>} \cup {<<x>> : x \in NodesA},
     s \in {<<>>, <<NodeS>>, <<NodeS, NodeSB>>, <<NodeS, NodeSD>>,
            <<NodeS, NodeSB, NodeSD>>}}

\* os.Stat(path): the node at path, a symlink followed to its regular file
Stat(fs, path) ==
  LET I == {i \in 1..Len(fs) : fs[i].path = path}
  IN  IF I = {} THEN [info |-> NilInfo, err |-> "stat"]
      ELSE LET nd == fs[CHOOSE i \in I : TRUE]
           IN  [info |-> IF nd.kind = "symlink" THEN [nd EXCEPT !.kind = "reg"] ELSE nd,
                err |-> "nil"]

\* info.Mode().IsRegular(): no type bit is set
IsRegular(info) == info.kind = "reg"

\* tar.FileInfoHeader(info, info.Name()) of a regular file
FileInfoHeader(info) ==
  Hdr(Base(info.path), Len(info.data), "owner", "owner", DefaultMode,
      "mtime", "atime", "ctime", TypeReg)

\* ----------------------------------------------------- header overrides
Now == "now"
\* time.Now().UTC().Format("20060102T150405"): digits and a T, no separator
FormatStamp(t) == <<"2", "0", "T", "1", "5">>

Overrides ==
  {Hdr(<<"n">>, 0, "server", "server", 384, mt, ZeroTime, ZeroTime, TypeRegA) :
     mt \in {ZeroTime, "t9"}}

BytesDefault ==
  Hdr(FormatStamp(Now), 0, "user", "user", DefaultMode, Now, ZeroTime, ZeroTime, TypeRegA)

TarDefault ==
  Hdr(<<>>, 0, "user", "user", DefaultMode, ZeroTime, ZeroTime, ZeroTime, TypeRegA)

\* faulty variant: the two defer statements in the other order
DeferredSwapped == <<"tw.Close", "gzw.Close">>

\* the deferred calls in the order the defer statements register them; they
\* run last registered first
Deferred == <<"gzw.Close", "tw.Close">>

\* ------------------------------------------------------------- state
VARIABLES
  op,       \* "Bytes", "Tar" or "none" (only Untar is called)
  opt,      \* the opt argument, NilHeader for nil
  b,        \* Bytes: the buffer's content
  src,      \* Tar: the source path
  fs,       \* Tar: the file system below the root, in walk order
  pc,       \* position in Bytes / Tar
  pl,       \* the sinks, the gzip writer and the tar writer
  built,    \* gzw and tw exist
  defers,   \* deferred calls still to run
  header,   \* the header last handed to tw.WriteHeader
  info,     \* the os.FileInfo in hand
  wi,       \* index in fs of the path the walk visits
  ret,      \* the error returned
  n,        \* Bytes: the count returned
  calls,    \* calls made on tw and gzw, in order
  upc,      \* position in Untar
  stream,   \* Untar: the content of r
  dstfs,    \* Untar: the file system at and below dst
  upos,     \* Untar: the tar reader's position in the tokens
  uhdr,     \* Untar: header
  trerr,    \* Untar: tr.err, the tar reader's sticky error
  uret,     \* Untar: the error returned
  pre       \* Untar: the path of the file that existed below dst, or <<>>

avars == <<op, opt, b, src, fs, pc, pl, built, defers, header, info, wi, ret, n, calls>>
uvars == <<upc, stream, dstfs, upos, uhdr, trerr, uret, pre>>
vars == <<avars, uvars>>

\* at most one sink fails: the first failure ends all writing
FailPlans ==
  {[k \in 1..NSinks |-> 0]}
    \cup {[k \in 1..NSinks |-> IF k = j THEN at ELSE 0] :
            j \in 1..NSinks, at \in 1..MaxFailAt}

Sinks(plan) == [k \in 1..NSinks |-> NewSink(plan[k])]

Dst == <<"o">>
DirEntry == [kind |-> "dir", data |-> <<>>]
FileEntry(data) == [kind |-> "file", data |-> data]
FreshDst == (Dst :> DirEntry)

Init ==
  /\ op \in {"Bytes", "Tar", "none"}
  /\ \/ /\ op = "Bytes"
        /\ opt \in {NilHeader} \cup Overrides
        /\ b \in Contents
        /\ src = <<>>
        /\ fs = <<>>
        /\ \E plan \in FailPlans : pl = NewPipeline(Sinks(plan))
     \/ /\ op = "Tar"
        /\ opt \in {NilHeader} \cup Overrides
        /\ b = <<>>
        /\ src \in {RootPath, PathA, MissingPath}
        /\ fs \in Trees
        /\ src = PathA => Len(fs) = 2 /\ fs[2].path = PathA /\ ~fs[2].lerr
        /\ src = MissingPath => Len(fs) = 1
        /\ \E plan \in FailPlans : pl = NewPipeline(Sinks(plan))
     \/ /\ op = "none"
        /\ opt = NilHeader
        /\ b = <<>>
        /\ src = <<>>
        /\ fs = <<>>
        /\ pl = NewPipeline(Sinks([k \in 1..NSinks |-> 0]))
  /\ pc = IF op = "none" THEN "done" ELSE "start"
  /\ built = FALSE
  /\ defers = <<>>
  /\ header = NilHeader
  /\ info = NilInfo
  /\ wi = 1
  /\ ret = "nil"
  /\ n = 0
  /\ calls = <<>>
  /\ upc = "idle"
  /\ stream = <<>>
  /\ dstfs = FreshDst
  /\ upos = 1
  /\ uhdr = NilHeader
  /\ trerr = "nil"
  /\ uret = "nil"
  /\ pre = <<>>

\* ------------------------------------------------------------- Bytes
\* faulty variant: a header that leaves Size at its zero value
BytesHeaderNoSize(o, buf) ==
  Hdr(o.Name, 0, o.Uname, o.Gname, o.Mode, o.ModTime, ZeroTime, ZeroTime, TypeRegA)

\* the header Bytes builds from opt and the buffer
BytesHeader(o, buf) ==
  Hdr(o.Name, Len(buf), o.Uname, o.Gname, o.Mode, o.ModTime, ZeroTime, ZeroTime, TypeRegA)

\* Bytes up to and including tw.WriteHeader, whose error is dropped
BytesBegin ==
  /\ pc = "start" /\ op = "Bytes"
  /\ \E emit \in BOOLEAN :
       LET o == IF opt = NilHeader THEN BytesDefault ELSE opt
           h == BytesHeader(o, b)
           r == TwWriteHeader(pl, h, emit)
       IN  /\ pl' = r.p
           /\ header' = h
  /\ built' = TRUE
  /\ defers' = Deferred
  /\ calls' = Append(calls, "tw.WriteHeader")
  /\ pc' = "bcopy"
  /\ UNCHANGED <<op, opt, b, src, fs, info, wi, ret, n, uvars>>

\* return io.Copy(tw, b)
BytesCopy ==
  /\ pc = "bcopy"
  /\ \E emit \in BOOLEAN :
       LET r == Copy(pl, b, TRUE, emit)
       IN  /\ pl' = r.p
           /\ n' = r.n
           /\ ret' = r.err
  /\ calls' = Append(calls, "io.Copy")
  /\ pc' = "defer"
  /\ UNCHANGED <<op, opt, b, src, fs, built, defers, header, info, wi, uvars>>

\* the function returns: the deferred call registered last runs, its error
\* is dropped
DeferTwClose ==
  /\ pc = "defer"
  /\ defers # <<>> /\ defers[Len(defers)] = "tw.Close"
  /\ \E emit \in BOOLEAN : pl' = TwClose(pl, emit).p
  /\ defers' = SubSeq(defers, 1, Len(defers) - 1)
  /\ calls' = Append(calls, "tw.Close")
  /\ pc' = IF Len(defers) = 1 THEN "done" ELSE "defer"
  /\ UNCHANGED <<op, opt, b, src, fs, built, header, info, wi, ret, n, uvars>>

DeferGzClose ==
  /\ pc = "defer"
  /\ defers # <<>> /\ defers[Len(defers)] = "gzw.Close"
  /\ pl' = GzClose(pl).p
  /\ defers' = SubSeq(defers, 1, Len(defers) - 1)
  /\ calls' = Append(calls, "gzw.Close")
  /\ pc' = IF Len(defers) = 1 THEN "done" ELSE "defer"
  /\ UNCHANGED <<op, opt, b, src, fs, built, header, info, wi, ret, n, uvars>>

\* --------------------------------------------------------------- Tar
TarOpt == IF opt = NilHeader THEN TarDefault ELSE opt

\* Tar up to the two defer statements: os.Stat, then the pipeline
TarBegin ==
  /\ pc = "start" /\ op = "Tar"
  /\ LET st == Stat(fs, src)
     IN  IF st.err # "nil"
         THEN /\ ret' = st.err
              /\ pc' = "done"
              /\ UNCHANGED <<info, built, defers>>
         ELSE /\ info' = st.info
              /\ built' = TRUE
              /\ defers' = Deferred
              /\ pc' = IF st.info.kind = "dir" THEN "walk" ELSE "file"
              /\ ret' = ret
  /\ UNCHANGED <<op, opt, b, src, fs, pl, header, wi, n, calls, uvars>>

\* src is no directory and not regular: return nil
TarFileSkip ==
  /\ pc = "file"
  /\ ~IsRegular(info)
  /\ ret' = "nil"
  /\ pc' = "defer"
  /\ UNCHANGED <<op, opt, b, src, fs, pl, built, defers, header, info, wi, n, calls, uvars>>

\* the header of the single file
FileHeader(o, path, inf) ==
  Hdr(Base(path), Len(inf.data), o.Uname, o.Gname, o.Mode, ZeroTime,
      ZeroTime, ZeroTime, TypeRegA)

\* src is a regular file: tw.WriteHeader, whose error is dropped
TarFileHeader ==
  /\ pc = "file"
  /\ IsRegular(info)
  /\ \E emit \in BOOLEAN :
       LET h == FileHeader(TarOpt, src, info)
       IN  /\ pl' = TwWriteHeader(pl, h, emit).p
           /\ header' = h
  /\ calls' = Append(calls, "tw.WriteHeader")
  /\ pc' = "fcopy"
  /\ UNCHANGED <<op, opt, b, src, fs, built, defers, info, wi, ret, n, uvars>>

\* f, _ := os.Open(src); _, err = io.Copy(tw, f); return err
TarFileCopy ==
  /\ pc = "fcopy"
  /\ \E emit \in BOOLEAN :
       LET r == Copy(pl, info.data, info.readable, emit)
       IN  /\ pl' = r.p
           /\ ret' = r.err
  /\ calls' = Append(calls, "io.Copy")
  /\ pc' = "defer"
  /\ UNCHANGED <<op, opt, b, src, fs, built, defers, header, info, wi, n, uvars>>

\* the name of a walked file's entry
EntryName(file, root) ==
  TrimPrefix(ReplaceAllEmpty(file, root), <<Sep>>)

\* the header of a walked file
WalkHeader(o, file, root, inf) ==
  LET h == FileInfoHeader(inf)
      set == o.ModTime # ZeroTime
  IN  [h EXCEPT !.Gname = o.Gname,
                !.Uname = o.Uname,
                !.Mode = o.Mode,
                !.AccessTime = IF set THEN o.ModTime ELSE @,
                !.ChangeTime = IF set THEN o.ModTime ELSE @,
                !.ModTime = IF set THEN o.ModTime ELSE @,
                !.Name = EntryName(file, root)]

\* the walk function is called with an error: the walk ends with it
WalkErr ==
  /\ pc = "walk" /\ wi <= Len(fs)
  /\ fs[wi].lerr
  /\ ret' = "walk"
  /\ pc' = "defer"
  /\ UNCHANGED <<op, opt, b, src, fs, pl, built, defers, header, info, wi, n, calls, uvars>>

\* the walked path is not regular: return nil, the walk goes on
WalkSkip ==
  /\ pc = "walk" /\ wi <= Len(fs)
  /\ ~fs[wi].lerr
  /\ ~IsRegular(fs[wi])
  /\ info' = fs[wi]
  /\ wi' = wi + 1
  /\ UNCHANGED <<op, opt, b, src, fs, pc, pl, built, defers, header, ret, n, calls, uvars>>

\* the walked path is regular: header built and written
WalkWriteHeader ==
  /\ pc = "walk" /\ wi <= Len(fs)
  /\ ~fs[wi].lerr
  /\ IsRegular(fs[wi])
  /\ info' = fs[wi]
  /\ \E emit \in BOOLEAN :
       LET h == WalkHeader(TarOpt, fs[wi].path, src, fs[wi])
           r == TwWriteHeader(pl, h, emit)
       IN  /\ pl' = r.p
           /\ header' = h
           /\ ret' = r.err
           /\ pc' = IF r.err # "nil" THEN "defer" ELSE "wcopy"
  /\ calls' = Append(calls, "tw.WriteHeader")
  /\ UNCHANGED <<op, opt, b, src, fs, built, defers, wi, n, uvars>>

\* f, _ := os.Open(file); _, err = io.Copy(tw, f); return err
WalkCopy ==
  /\ pc = "wcopy"
  /\ \E emit \in BOOLEAN :
       LET r == Copy(pl, info.data, info.readable, emit)
       IN  /\ pl' = r.p
           /\ ret' = r.err
           /\ pc' = IF r.err # "nil" THEN "defer" ELSE "walk"
           /\ wi' = IF r.err # "nil" THEN wi ELSE wi + 1
  /\ calls' = Append(calls, "io.Copy")
  /\ UNCHANGED <<op, opt, b, src, fs, built, defers, header, info, n, uvars>>

\* every path was visited: filepath.Walk returns nil
WalkEnd ==
  /\ pc = "walk" /\ wi > Len(fs)
  /\ ret' = "nil"
  /\ pc' = "defer"
  /\ UNCHANGED <<op, opt, b, src, fs, pl, built, defers, header, info, wi, n, calls, uvars>>

\* ------------------------------------------------------------- Untar
\* the tokens gzip.Reader yields from a stream whose header was read
RECURSIVE InflateFrom(_, _)
InflateFrom(st, i) ==
  IF i > Len(st) \/ st[i].c \notin {"deflate", "final"} THEN <<>>
  ELSE st[i].p \o (IF st[i].c = "final" THEN <<>> ELSE InflateFrom(st, i + 1))

Inflate(st) == InflateFrom(st, 2)

\* the stream ends with the compressor's last block and the trailer
GzComplete(st) ==
  /\ Len(st) >= 3
  /\ st[Len(st)].c = "gztrl"
  /\ st[Len(st) - 1].c = "final"

\* gzip.NewReader(r): reads the 10-byte header
GzNewReader(st) ==
  IF st = <<>> THEN "EOF"
  ELSE IF st[1].c # "gzhdr" THEN "gzheader"
  ELSE "nil"

\* what a read past the last token yields
EndErr(st) == IF GzComplete(st) THEN "EOF" ELSE "unexpectedEOF"

RECURSIVE SkipRest(_, _)
SkipRest(toks, pos) ==
  IF pos <= Len(toks) /\ toks[pos].t \in {"data", "pad"}
  THEN SkipRest(toks, pos + 1) ELSE pos

\* tar.Reader.Next(): a sticky error; else the rest of the entry before is
\* skipped and a block is read: a header, or the two zero blocks of the end.
\* Every error comes with a nil header.
TrNext(st, pos, err) ==
  LET toks == Inflate(st)
      q == SkipRest(toks, pos)
      fail(e) == [hdr |-> NilHeader, err |-> e, pos |-> q]
  IN  IF err # "nil" THEN [hdr |-> NilHeader, err |-> err, pos |-> pos]
      ELSE IF q > Len(toks) THEN fail(EndErr(st))
      ELSE IF toks[q].t = "zero"
           THEN IF q + 1 > Len(toks) THEN fail(EndErr(st))
                ELSE IF toks[q + 1].t = "zero" THEN fail("EOF")
                ELSE fail("header")
      ELSE IF toks[q].t = "hdr" THEN [hdr |-> toks[q].h, err |-> "nil", pos |-> q + 1]
      ELSE fail("header")

\* io.Copy(f, tr): the entry's Size bytes, or what there is of them
ReadBody(st, pos, size) ==
  LET toks == Inflate(st)
  IN  IF size = 0 THEN [data |-> <<>>, err |-> "nil", pos |-> pos]
      ELSE IF pos <= Len(toks) /\ toks[pos].t = "data"
           THEN [data |-> toks[pos].b,
                 err |-> IF Len(toks[pos].b) = size THEN "nil" ELSE "unexpectedEOF",
                 pos |-> pos + 1]
      ELSE [data |-> <<>>, err |-> "unexpectedEOF", pos |-> pos]

\* the paths of s and of the directories above it
Prefixes(s) ==
  {SubSeq(s, 1, i) : i \in {j \in 1..Len(s) : j = Len(s) \/ s[j + 1] = Sep}}

\* os.MkdirAll(target, mode)
MkdirAll(d, target) ==
  IF \E q \in Prefixes(target) : q \in DOMAIN d /\ d[q].kind # "dir"
  THEN [fs |-> d, err |-> "mkdir"]
  ELSE [fs |-> [q \in DOMAIN d \cup Prefixes(target) |->
                  IF q \in DOMAIN d THEN d[q] ELSE DirEntry],
        err |-> "nil"]

\* os.OpenFile(target, os.O_CREATE|os.O_WRONLY, mode): an existing file is
\* opened as it is, a missing one is created in an existing directory
OpenFile(d, target) ==
  IF target \in DOMAIN d
  THEN [fs |-> d, err |-> IF d[target].kind = "dir" THEN "open" ELSE "nil"]
  ELSE IF Dir(target) \in DOMAIN d /\ d[Dir(target)].kind = "dir"
       THEN [fs |-> (target :> FileEntry(<<>>)) @@ d, err |-> "nil"]
       ELSE [fs |-> d, err |-> "open"]

\* writing data from offset 0 into a file opened without O_TRUNC
Overwrite(old, data) == data \o SubSeq(old, Len(data) + 1, Len(old))

\* streams that were not written by Bytes or Tar
GzStream(toks) == <<ChunkHdr, ChunkFinal(toks), ChunkTrailer(TokBytes(toks))>>

ExtHdr(name, size, tf) ==
  Hdr(name, size, "user", "user", DefaultMode, ZeroTime, ZeroTime, ZeroTime, tf)

ExternalStreams ==
  {GzStream(<<TokHdr(ExtHdr(<<"s", Sep>>, 0, TypeDir)),
              TokHdr(ExtHdr(<<"s", Sep, "b">>, 1, TypeReg)),
              TokData(<<1>>), TokPad(BlockPadding(1)), TokZero, TokZero>>),
   GzStream(<<TokHdr(ExtHdr(<<"l">>, 0, TypeSymlink)),
              TokHdr(ExtHdr(<<"a">>, 1, TypeReg)),
              TokData(<<2>>), TokPad(BlockPadding(1)), TokZero, TokZero>>),
   GzStream(<<TokHdr(ExtHdr(<<"a">>, 0, TypeReg)), TokBad>>),
   <<ChunkJunk>>}

\* a file longer than any entry
OldData == [i \in 1..(MaxLen + 1) |-> 3]

\* the names of the regular-file entries of a stream
RegNames(st) ==
  LET toks == IF GzNewReader(st) = "nil" THEN Inflate(st) ELSE <<>>
  IN  {toks[i].h.Name : i \in {j \in 1..Len(toks) :
                                 toks[j].t = "hdr" /\ toks[j].h.Typeflag = TypeReg}}

\* dst before Untar: empty, or holding one file (below its directories)
DstWith(name) ==
  IF name = <<>> \/ Join(Dst, name) = Dst THEN FreshDst
  ELSE (Join(Dst, name) :> FileEntry(OldData)) @@ MkdirAll(FreshDst, Dir(Join(Dst, name))).fs

\* Untar is called, on what the first sink received or on a stream from
\* elsewhere: gzip.NewReader, then tar.NewReader
UntarOpen ==
  /\ pc = "done" /\ upc = "idle"
  /\ \E st \in (IF op = "none" THEN ExternalStreams ELSE {pl.sinks[1].data}) :
       /\ stream' = st
       /\ \E nm \in {<<>>} \cup RegNames(st) :
            /\ pre' = (IF DstWith(nm) = FreshDst THEN <<>> ELSE Join(Dst, nm))
            /\ dstfs' = DstWith(nm)
       /\ LET e == GzNewReader(st)
          IN  /\ uret' = e
              /\ upc' = IF e # "nil" THEN "done" ELSE "next"
  /\ UNCHANGED <<avars, upos, uhdr, trerr>>

\* header, err := tr.Next() and the switch on them, in the order of its cases
UntarNext ==
  /\ upc = "next"
  /\ LET r == TrNext(stream, upos, trerr)
     IN  /\ uhdr' = r.hdr
         /\ trerr' = r.err
         /\ upos' = r.pos
         /\ IF r.hdr = NilHeader
            THEN /\ upc' = "next"
                 /\ uret' = uret
            ELSE IF r.err = "EOF"
            THEN /\ upc' = "done"
                 /\ uret' = "nil"
            ELSE IF r.err # "nil"
            THEN /\ upc' = "done"
                 /\ uret' = r.err
            ELSE /\ upc' = "body"
                 /\ uret' = uret
  /\ UNCHANGED <<avars, stream, dstfs, pre>>

\* case tar.TypeDir
UntarDir ==
  /\ upc = "body" /\ uhdr.Typeflag = TypeDir
  /\ LET target == Join(Dst, uhdr.Name)
         r == IF target \in DOMAIN dstfs THEN [fs |-> dstfs, err |-> "nil"]
              ELSE MkdirAll(dstfs, target)
     IN  /\ dstfs' = r.fs
         /\ uret' = r.err
         /\ upc' = IF r.err # "nil" THEN "done" ELSE "next"
  /\ UNCHANGED <<avars, stream, upos, uhdr, trerr, pre>>

\* case tar.TypeReg
UntarReg ==
  /\ upc = "body" /\ uhdr.Typeflag = TypeReg
  /\ LET target == Join(Dst, uhdr.Name)
         o == OpenFile(dstfs, target)
         r == ReadBody(stream, upos, uhdr.Size)
     IN  IF o.err # "nil"
         THEN /\ uret' = o.err
              /\ upc' = "done"
              /\ UNCHANGED <<dstfs, upos>>
         ELSE /\ dstfs' = [o.fs EXCEPT ![target].data = Overwrite(@, r.data)]
              /\ upos' = r.pos
              /\ uret' = r.err
              /\ upc' = IF r.err # "nil" THEN "done" ELSE "next"
  /\ UNCHANGED <<avars, stream, uhdr, trerr, pre>>

\* any other type: nothing is done
UntarOther ==
  /\ upc = "body" /\ uhdr.Typeflag \notin {TypeDir, TypeReg}
  /\ upc' = "next"
  /\ UNCHANGED <<avars, stream, dstfs, upos, uhdr, trerr, uret, pre>>

\* ------------------------------------------------------ specification
Next ==
  \/ BytesBegin
  \/ BytesCopy
  \/ TarBegin
  \/ TarFileSkip
  \/ TarFileHeader
  \/ TarFileCopy
  \/ WalkErr
  \/ WalkSkip
  \/ WalkWriteHeader
  \/ WalkCopy
  \/ WalkEnd
  \/ DeferTwClose
  \/ DeferGzClose
  \/ UntarOpen
  \/ UntarNext
  \/ UntarDir
  \/ UntarReg
  \/ UntarOther

Spec == Init /\ [][Next]_vars

\* ------------------------------------------------------------ claims
NoSinkFailed == \A k \in 1..Len(pl.sinks) : ~SinkFailed(pl.sinks[k])
SomeSinkFailed == \E k \in 1..Len(pl.sinks) : SinkFailed(pl.sinks[k])

\* file's path relative to root: the root and one separator cut off the front
RelPath(file, root) == SubSeq(file, Len(root) + 2, Len(file))

\* the tree holds only readable regular files and directories
PlainTree ==
  \A i \in 1..Len(fs) :
    /\ fs[i].kind \in {"reg", "dir"}
    /\ fs[i].readable
    /\ ~fs[i].lerr

\* Untar has read its stream to the end or has returned
UntarOver == upc = "done" \/ (upc = "next" /\ trerr # "nil")

\* C1: Tar of a tree of regular files and directories, then Untar of the
\* stream into an empty destination, recreates every regular file of the tree
\* at its path relative to the root, with its content.
C1_TarUntarRoundTrip ==
  (/\ op = "Tar" /\ src = RootPath /\ PlainTree
   /\ pc = "done" /\ NoSinkFailed
   /\ pre = <<>> /\ UntarOver)
  => \A i \in 1..Len(fs) :
       fs[i].kind = "reg" =>
         LET target == Join(Dst, RelPath(fs[i].path, src))
         IN  /\ target \in DOMAIN dstfs
             /\ dstfs[target] = FileEntry(fs[i].data)

\* C2: Bytes(b, nil, sink), then Untar of the stream into an empty
\* directory: once the stream is read to its end the directory holds exactly
\* one regular file, with content b, and no subdirectory.
C2_BytesUntarRoundTrip ==
  (/\ op = "Bytes" /\ opt = NilHeader
   /\ pc = "done" /\ NoSinkFailed
   /\ pre = <<>> /\ UntarOver)
  => /\ trerr = "EOF"
     /\ dstfs = (Join(Dst, FormatStamp(Now)) :> FileEntry(b)) @@ FreshDst

C2_Witness ==
  /\ op = "Bytes" /\ opt = NilHeader
  /\ pc = "done" /\ NoSinkFailed
  /\ pre = <<>> /\ UntarOver
  /\ Len(b) = MaxLen
  /\ Cardinality(DOMAIN dstfs) = 2

\* C3: once tr.Next reports the end of the stream Untar returns nil, once it
\* reports a decode error Untar returns that error; the loop does not go on.
C3_UntarReturns ==
  /\ trerr = "EOF" => (upc = "done" /\ uret = "nil")
  /\ trerr \notin {"nil", "EOF"} => (upc = "done" /\ uret = trerr)

\* C4: Bytes and Tar return an error when a Write on a sink has failed.
C4_SinkFailureReturned ==
  (pc = "done" /\ op \in {"Bytes", "Tar"} /\ SomeSinkFailed) => ret # "nil"

\* C5: while no Write fails all sinks hold the same chunks in the same order;
\* when a Write on sink k fails, the sinks before k hold that chunk, sink k
\* and the sinks after it do not, and no sink is written again.
C5_SinksAgree ==
  LET S == pl.sinks
  IN  /\ NoSinkFailed => \A j, k \in 1..Len(S) : S[j].data = S[k].data
      /\ \A k \in 1..Len(S) :
           SinkFailed(S[k]) =>
             /\ \A j \in 1..(k - 1) :
                  /\ Len(S[j].data) = Len(S[k].data) + 1
                  /\ SubSeq(S[j].data, 1, Len(S[k].data)) = S[k].data
             /\ \A j \in (k + 1)..Len(S) : S[j].data = S[k].data

C5_FanOut ==
  /\ []C5_SinksAgree
  /\ [][SomeSinkFailed => pl'.sinks = pl.sinks]_vars

C5_Witness ==
  /\ pc = "done"
  /\ SinkFailed(pl.sinks[2])
  /\ Len(pl.sinks[2].data) >= 1
  /\ Len(pl.sinks[1].data) = Len(pl.sinks[2].data) + 1

\* C6: with a header override, every header handed to tw.WriteHeader carries
\* the override's owner, group, mode and non-zero modification time (in a
\* directory walk also as access and change time), in all three modes.
C6_OverrideInEveryHeader ==
  (opt # NilHeader /\ pc \in {"bcopy", "fcopy", "wcopy"})
  => /\ header.Uname = opt.Uname
     /\ header.Gname = opt.Gname
     /\ header.Mode = opt.Mode
     /\ opt.ModTime # ZeroTime =>
          /\ header.ModTime = opt.ModTime
          /\ pc = "wcopy" => /\ header.AccessTime = opt.ModTime
                             /\ header.ChangeTime = opt.ModTime

\* C7: Tar writes an entry only for a path whose mode has no type bit and
\* none of setuid, setgid, sticky; any other path is skipped without error.
C7_OnlyPlainRegularArchived ==
  /\ pc \in {"fcopy", "wcopy"} => (info.kind = "reg" /\ ~info.special)
  /\ (pc = "defer" /\ calls = <<>> /\ info.kind \notin {"reg", "dir"}) => ret = "nil"

\* C8: on every return of Bytes and Tar after the pipeline was built, tw is
\* closed once, then gzw is closed once, and no header or content is written
\* after a Close.
C8_CloseOnceInOrder ==
  LET m == Len(calls)
      closes == {"tw.Close", "gzw.Close"}
  IN  /\ (pc = "done" /\ built) =>
            /\ m >= 2
            /\ calls[m - 1] = "tw.Close"
            /\ calls[m] = "gzw.Close"
      /\ \A i, j \in 1..m :
           (i < j /\ calls[i] \in closes) => (calls[j] \in closes /\ calls[j] # calls[i])

C8_Witness ==
  /\ pc = "done" /\ built
  /\ op = "Tar" /\ ret = "sink"
  /\ Len(calls) = 3

\* C9: after Untar handled a regular-file entry the file at the target path
\* holds exactly the entry's bytes, whether or not the file existed before.
C9_FileHoldsEntryBytes ==
  (upc = "next" /\ uhdr # NilHeader /\ uhdr.Typeflag = TypeReg)
  => dstfs[Join(Dst, uhdr.Name)] =
       FileEntry(IF uhdr.Size = 0 THEN <<>> ELSE Inflate(stream)[upos - 1].b)

\* C10: in a directory walk the name of an entry is the walked path relative
\* to src.
C10_EntryNameIsRelativePath ==
  pc = "wcopy" => header.Name = RelPath(info.path, src)

====
